---- MODULE Spec2Model ----
(***************************************************************************)
(* Model of vashishta_simulator/computer.py: the LAMMPS launch targets     *)
(* (Computer, CPU, GPU, SlurmCPU, SlurmGPU) and the command builder        *)
(* Computer.run_lammps.                                                    *)
(*                                                                         *)
(* Representation.                                                         *)
(*  - A Python str is a sequence of chunks (Text): a word, a decimal       *)
(*    digit, the blank " " or the newline "\n" each are one chunk, and     *)
(*    string concatenation is \o.                                          *)
(*  - A Python dict is the sequence of its <<key, value>> items in         *)
(*    insertion order, with pairwise distinct keys.                        *)
(*  - dict objects that are stored by reference (self.args = args) live    *)
(*    in `heap`; an instance holds the address of its option map.          *)
(***************************************************************************)
EXTENDS Integers, Sequences, FiniteSets, TLC

VARIABLES heap, insts, fs, log, call, err, build, thr

vars == <<heap, insts, fs, log, call, err, build, thr>>

(***************************************************************************)
(* Bounds of the model.                                                    *)
(***************************************************************************)
MaxInst  == 2   \* target instances constructed in one run
MaxN     == 2   \* process / accelerator / node counts range over 1..MaxN
MaxLen   == 2   \* items in an option or variable map given to run_lammps

(***************************************************************************)
(* Text                                                                    *)
(***************************************************************************)
SP == " "
NL == "\n"

W(s) == <<s>>

Digits == <<"0", "1", "2", "3", "4", "5", "6", "7", "8", "9">>

\* str(n) of a non-negative int: its decimal digits, most significant first
RECURSIVE IntToStr(_)
IntToStr(n) ==
  IF n < 10 THEN <<Digits[n + 1]>>
  ELSE IntToStr(n \div 10) \o <<Digits[(n % 10) + 1]>>

(***************************************************************************)
(* dict                                                                    *)
(***************************************************************************)
Keys(d) == {d[i][1] : i \in DOMAIN d}

HasKey(d, k) == \E i \in DOMAIN d : d[i][1] = k

Index(d, k) == CHOOSE i \in DOMAIN d : d[i][1] = k

Get(d, k) == d[Index(d, k)][2]

\* (mutant) d[k] = v that never looks for the key
DictSet_AlwaysAppend(d, k, v) == Append(d, <<k, v>>)

\* (mutant) d[k] = v that keeps the value of a key already there
DictSet_KeepFirst(d, k, v) == IF HasKey(d, k) THEN d ELSE Append(d, <<k, v>>)

\* d[k] = v : an existing key keeps its position, a new key goes last
DictSet(d, k, v) ==
  IF HasKey(d, k) THEN [d EXCEPT ![Index(d, k)] = <<k, v>>]
  ELSE Append(d, <<k, v>>)

\* (mutant) a merge in which the left map wins
DictMerge_LeftWins(a, b) ==
  LET New(item) == ~HasKey(a, item[1]) IN a \o SelectSeq(b, New)

\* {**a, **b}
RECURSIVE DictMerge(_, _)
DictMerge(a, b) ==
  IF b = <<>> THEN a
  ELSE DictMerge(DictSet(a, Head(b)[1], Head(b)[2]), Tail(b))

(***************************************************************************)
(* Computer.run_lammps                                                     *)
(***************************************************************************)
\* for key, value in args.items(): call_string += f"{key} {value} "
RECURSIVE RenderArgs(_)
RenderArgs(args) ==
  IF args = <<>> THEN <<>>
  ELSE Head(args)[1] \o <<SP>> \o Head(args)[2] \o <<SP>> \o RenderArgs(Tail(args))

\* for key, value in var.items(): call_string += f"-var {key} {value} "
RECURSIVE RenderVars(_)
RenderVars(var) ==
  IF var = <<>> THEN <<>>
  ELSE <<"-var", SP>> \o Head(var)[1] \o <<SP>> \o Head(var)[2] \o <<SP>>
       \o RenderVars(Tail(var))

\* (mutant) the variables rendered before the options
run_lammps_VarsFirst(num_procs, lmp_exec, args, var) ==
  <<"mpirun", SP, "-n", SP>> \o IntToStr(num_procs) \o <<SP>> \o lmp_exec \o <<SP>>
  \o RenderVars(var) \o RenderArgs(args)

run_lammps(num_procs, lmp_exec, args, var) ==
  <<"mpirun", SP, "-n", SP>> \o IntToStr(num_procs) \o <<SP>> \o lmp_exec \o <<SP>>
  \o RenderArgs(args) \o RenderVars(var)

(***************************************************************************)
(* Inputs                                                                  *)
(***************************************************************************)
Scripts == {W("in.melt"), W("in.run")}
Execs   == {W("lmp_mpi"), W("lmp")}

PK_CPU == <<"kokkos", SP, "newton", SP, "on", SP, "comm", SP, "no">>

OptItems == { <<W("-in"), W("in.old")>>, <<W("-in"), W("in.melt")>>,
              <<W("-sf"), W("gpu")>>, <<W("-pk"), PK_CPU>> }
VarItems == { <<W("T"), W("300")>>, <<W("T"), W("1")>>,
              <<W("P"), W("1")>>, <<W("P"), W("300")>> }

DistinctKeys(d) == \A i, j \in DOMAIN d : d[i][1] = d[j][1] => i = j

\* the dicts of at most n items over a set of items
DictsOver(items, n) ==
  UNION { {d \in [1..m -> items] : DistinctKeys(d)} : m \in 0..n }

(***************************************************************************)
(* Objects                                                                 *)
(***************************************************************************)
\* The dict objects created when the class bodies are executed: the
\* `args={}` default of each __init__ is one object for the whole run.
DefaultArgs == [CPU |-> 1, GPU |-> 2, SlurmCPU |-> 3, SlurmGPU |-> 4]

InitHeap == << <<>>, <<>>, <<>>, <<>> >>

DefaultNumProcs     == 4
DefaultProcsPerNode == 16

LMP_MPI    == W("lmp_mpi")
LMP_KOKKOS == W("lmp_kokkos_cuda_mpi")
LMP        == W("lmp")
LMP_MODULE == W("LAMMPS/13Mar18-foss-2018a")
JOBSCRIPT  == W("jobscript")

NoCtor == [has_args |-> FALSE, args |-> <<>>, settings |-> <<>>, procs_per_node |-> 0]

\* an instance; the attributes a class does not set are left at their filler
\* (0, <<>>, FALSE); `ctor` remembers the constructor's arguments
Object(kind) ==
  [kind |-> kind, num_procs |-> 0, gpu_per_node |-> 0, num_nodes |-> 0,
   lmp_exec |-> <<>>, lmp_module |-> <<>>, generate_jobscript |-> FALSE,
   jobscript |-> <<>>, settings |-> <<>>, args |-> 0, ctor |-> NoCtor]

Given(h, kind, args) ==
  [NoCtor EXCEPT !.has_args = (args # DefaultArgs[kind]), !.args = h[args]]

(***************************************************************************)
(* Computer                                                                *)
(***************************************************************************)
\* the operations each class body defines itself; run_lammps is inherited
Defines ==
  [Computer |-> {"__init__", "__call__", "run_lammps"},
   CPU      |-> {"__init__", "__call__"},
   GPU      |-> {"__init__", "__call__"},
   SlurmCPU |-> {"__init__", "gen_jobscript", "__call__"},
   SlurmGPU |-> {"__init__", "gen_jobscript", "__call__"}]

\* attribute lookup along the class hierarchy (every class derives from Computer)
Resolve(kind, method) == IF method \in Defines[kind] THEN kind ELSE "Computer"

\* Computer.__init__ raises NotImplementedError: no attribute is set
Computer__init__(h, lmp_exec, args) ==
  [self |-> Object("Computer"), heap |-> h, err |-> "NotImplementedError"]

\* (mutant) a base launch that returns without raising
Computer__call__Silent(self, h, f, lmp_script, var) ==
  [heap |-> h, fs |-> f, log |-> <<>>, err |-> "none"]

\* Computer.__call__ raises NotImplementedError
Computer__call__(self, h, f, lmp_script, var) ==
  [heap |-> h, fs |-> f, log |-> <<>>, err |-> "NotImplementedError"]

(***************************************************************************)
(* CPU                                                                     *)
(***************************************************************************)
\* self.args = args : the instance keeps the caller's (or the default) object
CPU__init__(h, num_procs, lmp_exec, args) ==
  [self |-> [Object("CPU") EXCEPT !.num_procs = num_procs, !.lmp_exec = lmp_exec,
                                  !.args = args, !.ctor = Given(h, "CPU", args)],
   heap |-> h, err |-> "none"]

System(cmd, seen) == [op |-> "system", cmd |-> cmd, data |-> seen]
Write(path, content) == [op |-> "write", cmd |-> path, data |-> content]

\* the effect of CPU.__call__(self, lmp_script, var) on the heap, the files
\* and the processes spawned
CPU__call__(self, h, f, lmp_script, var) ==
  LET h1 == [h EXCEPT ![self.args] = DictSet(@, W("-in"), lmp_script)]
      call_string == run_lammps(self.num_procs, self.lmp_exec, h1[self.args], var)
  IN  [heap |-> h1, fs |-> f, log |-> <<System(call_string, <<>>)>>,
       err |-> "none"]

(***************************************************************************)
(* GPU                                                                     *)
(***************************************************************************)
GPU_default_args(gpu_per_node) ==
  << <<W("-pk"), PK_CPU>>,
     <<W("-k"), <<"on", SP, "g", SP>> \o IntToStr(gpu_per_node)>>,
     <<W("-sf"), W("kk")>> >>

\* self.args = {**default_args, **args} : a new dict object
GPU__init__(h, gpu_per_node, lmp_exec, args) ==
  [self |-> [Object("GPU") EXCEPT !.gpu_per_node = gpu_per_node, !.lmp_exec = lmp_exec,
                                  !.args = Len(h) + 1, !.ctor = Given(h, "GPU", args)],
   heap |-> Append(h, DictMerge(GPU_default_args(gpu_per_node), h[args])), err |-> "none"]

\* (mutant) the default process count of CPU passed as -n
GPU__call__DefaultProcs(self, h, f, lmp_script, var) ==
  LET h1 == [h EXCEPT ![self.args] = DictSet(@, W("-in"), lmp_script)]
      call_string == run_lammps(DefaultNumProcs, self.lmp_exec, h1[self.args], var)
  IN  [heap |-> h1, fs |-> f, log |-> <<System(call_string, <<>>)>>,
       err |-> "none"]

GPU__call__(self, h, f, lmp_script, var) ==
  LET h1 == [h EXCEPT ![self.args] = DictSet(@, W("-in"), lmp_script)]
      call_string == run_lammps(self.gpu_per_node, self.lmp_exec, h1[self.args], var)
  IN  [heap |-> h1, fs |-> f, log |-> <<System(call_string, <<>>)>>,
       err |-> "none"]

(***************************************************************************)
(* SlurmCPU                                                                *)
(***************************************************************************)
SlurmCPU_default_settings(num_procs, num_nodes) ==
  << <<W("job-name"), W("CPU-job")>>,
     <<W("account"), W("nn9272k")>>,
     <<W("time"), W("05:00:00")>>,
     <<W("partition"), W("normal")>>,
     <<W("ntasks"), IntToStr(num_procs)>>,
     <<W("nodes"), IntToStr(num_nodes)>>,
     <<W("output"), W("slurm.out")>> >>

SlurmCPU__init__(h, num_nodes, lmp_exec, settings, args, procs_per_node, lmp_module, generate_jobscript, jobscript) ==
  LET num_procs == num_nodes * procs_per_node
  IN  [self |-> [Object("SlurmCPU") EXCEPT
                   !.num_nodes = num_nodes, !.num_procs = num_procs,
                   !.lmp_exec = lmp_exec, !.lmp_module = lmp_module,
                   !.generate_jobscript = generate_jobscript,
                   !.jobscript = jobscript,
                   !.settings = DictMerge(SlurmCPU_default_settings(num_procs, num_nodes),
                                          settings),
                   !.args = args,
                   !.ctor = [Given(h, "SlurmCPU", args) EXCEPT
                               !.settings = settings,
                               !.procs_per_node = procs_per_node]],
       heap |-> h, err |-> "none"]

File(content) == [exists |-> TRUE, content |-> content]
NoFile == [exists |-> FALSE, content |-> <<>>]

\* os.system(f"sbatch {self.jobscript}") : the queue reads the file as it is
Sbatch(self, f) == System(<<"sbatch", SP>> \o self.jobscript, f[self.jobscript].content)

\* for key, setting in self.settings.items(): f.write(f"#SBATCH --{key}={setting}\n#\n")
RECURSIVE Directives(_)
Directives(settings) ==
  IF settings = <<>> THEN <<>>
  ELSE <<"#SBATCH", SP, "--">> \o Head(settings)[1] \o <<"=">> \o Head(settings)[2]
       \o <<NL, "#", NL>> \o Directives(Tail(settings))

\* (mutant) the node count passed as the process count
SlurmCPU_gen_jobscript_Nodes(self, args, var) ==
  <<"#!/bin/bash", NL, NL>>
  \o Directives(self.settings)
  \o <<"##", SP, "Set", SP, "up", SP, "job", SP, "environment:", NL>>
  \o <<"source", SP, "/cluster/bin/jobsetup", NL>>
  \o <<"module", SP, "purge", NL>>
  \o <<"set", SP, "-o", SP, "errexit", NL, NL>>
  \o <<"module", SP, "load", SP>> \o self.lmp_module \o <<NL, NL>>
  \o run_lammps(self.num_nodes, self.lmp_exec, args, var)

\* the text SlurmCPU.gen_jobscript writes to self.jobscript
SlurmCPU_gen_jobscript(self, args, var) ==
  <<"#!/bin/bash", NL, NL>>
  \o Directives(self.settings)
  \o <<"##", SP, "Set", SP, "up", SP, "job", SP, "environment:", NL>>
  \o <<"source", SP, "/cluster/bin/jobsetup", NL>>
  \o <<"module", SP, "purge", NL>>
  \o <<"set", SP, "-o", SP, "errexit", NL, NL>>
  \o <<"module", SP, "load", SP>> \o self.lmp_module \o <<NL, NL>>
  \o run_lammps(self.num_procs, self.lmp_exec, args, var)

\* (mutant) the job script generated before options['-in'] is set
SlurmCPU__call__GenerateFirst(self, h, f, lmp_script, var) ==
  LET text == SlurmCPU_gen_jobscript(self, h[self.args], var)
      f1 == IF self.generate_jobscript
            THEN [f EXCEPT ![self.jobscript] = File(text)] ELSE f
      written == IF self.generate_jobscript
                 THEN <<Write(self.jobscript, text)>> ELSE <<>>
      h1 == [h EXCEPT ![self.args] = DictSet(@, W("-in"), lmp_script)]
  IN  [heap |-> h1, fs |-> f1, log |-> written \o <<Sbatch(self, f1)>>,
       err |-> "none"]

SlurmCPU__call__(self, h, f, lmp_script, var) ==
  LET h1 == [h EXCEPT ![self.args] = DictSet(@, W("-in"), lmp_script)]
      text == SlurmCPU_gen_jobscript(self, h1[self.args], var)
      f1 == IF self.generate_jobscript
            THEN [f EXCEPT ![self.jobscript] = File(text)] ELSE f
      written == IF self.generate_jobscript
                 THEN <<Write(self.jobscript, text)>> ELSE <<>>
  IN  [heap |-> h1, fs |-> f1, log |-> written \o <<Sbatch(self, f1)>>,
       err |-> "none"]

(***************************************************************************)
(* SlurmGPU                                                                *)
(***************************************************************************)
PK_GPU == <<"kokkos", SP, "newton", SP, "on", SP, "neigh", SP, "half">>

SlurmGPU_default_settings(gpu_per_node) ==
  << <<W("job-name"), W("GPU-job")>>,
     <<W("partition"), W("normal")>>,
     <<W("ntasks"), IntToStr(gpu_per_node)>>,
     <<W("cpus-per-task"), W("2")>>,
     <<W("gres"), <<"gpu:">> \o IntToStr(gpu_per_node)>>,
     <<W("output"), W("slurm.out")>> >>

SlurmGPU_default_args(gpu_per_node) ==
  << <<W("-pk"), PK_GPU>>,
     <<W("-k"), <<"on", SP, "g", SP>> \o IntToStr(gpu_per_node)>>,
     <<W("-sf"), W("kk")>> >>

SlurmGPU__init__(h, gpu_per_node, lmp_exec, settings, args, generate_jobscript, jobscript) ==
  [self |-> [Object("SlurmGPU") EXCEPT
               !.gpu_per_node = gpu_per_node, !.lmp_exec = lmp_exec,
               !.generate_jobscript = generate_jobscript,
               !.jobscript = jobscript,
               !.args = Len(h) + 1,
               !.settings = DictMerge(SlurmGPU_default_settings(gpu_per_node), settings),
               !.ctor = [Given(h, "SlurmGPU", args) EXCEPT !.settings = settings]],
   heap |-> Append(h, DictMerge(SlurmGPU_default_args(gpu_per_node), h[args])), err |-> "none"]

\* (mutant) the module-load line of the CPU job script kept
SlurmGPU_gen_jobscript_Module(self, args, var) ==
  <<"#!/bin/bash", NL, NL>>
  \o Directives(self.settings)
  \o <<"echo", SP, "$CUDA_VISIBLE_DEVICES", NL>>
  \o <<"module", SP, "load", SP>> \o LMP_MODULE \o <<NL, NL>>
  \o run_lammps(self.gpu_per_node, self.lmp_exec, args, var)

\* the text SlurmGPU.gen_jobscript writes to self.jobscript
SlurmGPU_gen_jobscript(self, args, var) ==
  <<"#!/bin/bash", NL, NL>>
  \o Directives(self.settings)
  \o <<"echo", SP, "$CUDA_VISIBLE_DEVICES", NL>>
  \o run_lammps(self.gpu_per_node, self.lmp_exec, args, var)

SlurmGPU__call__(self, h, f, lmp_script, var) ==
  LET h1 == [h EXCEPT ![self.args] = DictSet(@, W("-in"), lmp_script)]
      text == SlurmGPU_gen_jobscript(self, h1[self.args], var)
      f1 == IF self.generate_jobscript
            THEN [f EXCEPT ![self.jobscript] = File(text)] ELSE f
      written == IF self.generate_jobscript
                 THEN <<Write(self.jobscript, text)>> ELSE <<>>
  IN  [heap |-> h1, fs |-> f1, log |-> written \o <<Sbatch(self, f1)>>,
       err |-> "none"]

(***************************************************************************)
(* SpecBuild: run_lammps applied to every bounded input                    *)
(***************************************************************************)
NoBuild == [num_procs |-> 0, lmp_exec |-> <<>>, args |-> <<>>, var |-> <<>>,
            out |-> <<>>, done |-> FALSE]

InitBuild ==
  /\ heap = <<>> /\ insts = <<>> /\ fs = <<>> /\ log = <<>>
  /\ call = <<>> /\ err = "none" /\ thr = <<>>
  /\ \E n \in 1..(10 * MaxN + 2), e \in Execs,
        a \in DictsOver(OptItems, MaxLen), v \in DictsOver(VarItems, MaxLen) :
        build = [num_procs |-> n, lmp_exec |-> e, args |-> a, var |-> v,
                 out |-> <<>>, done |-> FALSE]

RunLammps ==
  /\ ~build.done
  /\ build' = [build EXCEPT
                 !.out = run_lammps(build.num_procs, build.lmp_exec, build.args, build.var),
                 !.done = TRUE]
  /\ UNCHANGED <<heap, insts, fs, log, call, err, thr>>

NextBuild == RunLammps

SpecBuild == InitBuild /\ [][NextBuild]_vars

(***************************************************************************)
(* Spec and SpecOne: a caller constructing targets and launching runs      *)
(***************************************************************************)
Paths == {JOBSCRIPT}

\* the last operation of the caller: `prev` is the script the target's
\* option map named when a launch began (<<>> when it named none)
NoCall == [op |-> "none", inst |-> 0, script |-> <<>>, var |-> <<>>, prev |-> <<>>]

Init ==
  /\ heap = InitHeap
  /\ insts = <<>>
  /\ fs = [p \in Paths |-> NoFile]
  /\ log = <<>>
  /\ call = NoCall
  /\ err = "none"
  /\ build = NoBuild
  /\ thr = <<>>

\* What the caller passes.  Several: up to MaxInst targets, few parameter
\* values each.  Single: one target, many parameter values.
Several ==
  [max      |-> MaxInst,
   procs    |-> {DefaultNumProcs},
   counts   |-> {1},
   ppn      |-> {DefaultProcsPerNode},
   dicts    |-> { << <<W("-in"), W("in.old")>> >> },
   settings |-> { <<>> },
   vars     |-> { <<>>, << <<W("T"), W("300")>> >> },
   gen      |-> {TRUE}]

Single ==
  [max      |-> 1,
   procs    |-> 1..MaxN \cup {DefaultNumProcs},
   counts   |-> 1..MaxN,
   ppn      |-> {1, DefaultProcsPerNode},
   dicts    |-> { <<>>,
                  << <<W("-in"), W("in.old")>> >>,
                  << <<W("-sf"), W("gpu")>>, <<W("-in"), W("in.old")>> >>,
                  << <<W("-echo"), W("both")>>, <<W("-k"), W("off")>> >> },
   settings |-> { <<>>,
                  << <<W("time"), W("00:10:00")>> >>,
                  << <<W("mail-type"), W("END")>>, <<W("ntasks"), W("8")>> >>,
                  << <<W("nodes"), W("9")>>, <<W("job-name"), W("melt")>>,
                     <<W("gres"), W("gpu:8")>> >> },
   vars     |-> { <<>>, << <<W("T"), W("300")>> >>,
                  << <<W("T"), W("300")>>, <<W("P"), W("1")>> >> },
   gen      |-> BOOLEAN]

\* The `args` a constructor of class `kind` can receive: nothing (its default
\* object) or a dict the caller has just made.  Each comes with the heap it
\* lives in.
ArgRefs(in, kind) ==
  {[heap |-> heap, args |-> DefaultArgs[kind]]}
  \cup {[heap |-> Append(heap, d), args |-> Len(heap) + 1] : d \in in.dicts}

\* a constructor has returned r (or raised r.err: then no instance exists)
Constructed(op, r) ==
  /\ insts' = IF r.err = "none" THEN Append(insts, r.self) ELSE insts
  /\ heap' = r.heap
  /\ err' = r.err
  /\ call' = [NoCall EXCEPT !.op = op,
                            !.inst = IF r.err = "none" THEN Len(insts) + 1 ELSE 0]
  /\ log' = <<>>
  /\ UNCHANGED <<fs, build, thr>>

NewComputer == Constructed("base_init", Computer__init__(heap, LMP_MPI, DefaultArgs.CPU))

NewCPU(in) ==
  /\ Len(insts) < in.max
  /\ \E n \in in.procs, a \in ArgRefs(in, "CPU") :
       Constructed("init", CPU__init__(a.heap, n, LMP_MPI, a.args))

NewGPU(in) ==
  /\ Len(insts) < in.max
  /\ \E g \in in.counts, a \in ArgRefs(in, "GPU") :
       Constructed("init", GPU__init__(a.heap, g, LMP_KOKKOS, a.args))

NewSlurmCPU(in) ==
  /\ Len(insts) < in.max
  /\ \E nodes \in in.counts, ppn \in in.ppn, st \in in.settings,
        a \in ArgRefs(in, "SlurmCPU"), gen \in in.gen :
       Constructed("init", SlurmCPU__init__(a.heap, nodes, LMP_MPI, st, a.args, ppn,
                                            LMP_MODULE, gen, JOBSCRIPT))

NewSlurmGPU(in) ==
  /\ Len(insts) < in.max
  /\ \E g \in in.counts, st \in in.settings,
        a \in ArgRefs(in, "SlurmGPU"), gen \in in.gen :
       Constructed("init", SlurmGPU__init__(a.heap, g, LMP, st, a.args, gen, JOBSCRIPT))

Named(d) == IF HasKey(d, W("-in")) THEN Get(d, W("-in")) ELSE <<>>

\* a launch of target i has returned r (or raised r.err)
Called(op, i, s, v, r) ==
  /\ heap' = r.heap
  /\ fs' = r.fs
  /\ log' = r.log
  /\ err' = r.err
  /\ call' = [op |-> op, inst |-> i, script |-> s, var |-> v,
              prev |-> Named(heap[insts[i].args])]
  /\ UNCHANGED <<insts, build, thr>>

\* target(lmp_script, var), by the class whose __call__ the lookup finds
CallCPU(in) ==
  \E i \in DOMAIN insts, s \in Scripts, v \in in.vars :
    /\ Resolve(insts[i].kind, "__call__") = "CPU"
    /\ Called("call", i, s, v, CPU__call__(insts[i], heap, fs, s, v))

CallGPU(in) ==
  \E i \in DOMAIN insts, s \in Scripts, v \in in.vars :
    /\ Resolve(insts[i].kind, "__call__") = "GPU"
    /\ Called("call", i, s, v, GPU__call__(insts[i], heap, fs, s, v))

CallSlurmCPU(in) ==
  \E i \in DOMAIN insts, s \in Scripts, v \in in.vars :
    /\ Resolve(insts[i].kind, "__call__") = "SlurmCPU"
    /\ Called("call", i, s, v, SlurmCPU__call__(insts[i], heap, fs, s, v))

CallSlurmGPU(in) ==
  \E i \in DOMAIN insts, s \in Scripts, v \in in.vars :
    /\ Resolve(insts[i].kind, "__call__") = "SlurmGPU"
    /\ Called("call", i, s, v, SlurmGPU__call__(insts[i], heap, fs, s, v))

\* Computer.__call__(target, lmp_script, var): the base operation itself
BaseCall(in) ==
  \E i \in DOMAIN insts, s \in Scripts, v \in in.vars :
    Called("base_call", i, s, v, Computer__call__(insts[i], heap, fs, s, v))

Steps(in) ==
  \/ NewCPU(in) \/ NewGPU(in) \/ NewSlurmCPU(in) \/ NewSlurmGPU(in)
  \/ CallCPU(in) \/ CallGPU(in) \/ CallSlurmCPU(in) \/ CallSlurmGPU(in)

Next == Steps(Several)

Spec == Init /\ [][Next]_vars

NextOne == Steps(Single) \/ NewComputer \/ BaseCall(Single)

SpecOne == Init /\ [][NextOne]_vars

(***************************************************************************)
(* C1                                                                       *)
(***************************************************************************)
RECURSIVE SumLen(_, _)
\* the summed length of the first n texts of a sequence of texts
SumLen(segs, n) == IF n = 0 THEN 0 ELSE SumLen(segs, n - 1) + Len(segs[n])

\* `out` is exactly the texts of `segs` laid end to end
Partitions(out, segs) ==
  /\ Len(out) = SumLen(segs, Len(segs))
  /\ \A i \in DOMAIN segs :
       SubSeq(out, SumLen(segs, i - 1) + 1, SumLen(segs, i)) = segs[i]

\* the pieces the command must consist of, in order
ExpectedSegs(b) ==
  << <<"mpirun", SP, "-n", SP>> \o IntToStr(b.num_procs) \o <<SP>> \o b.lmp_exec \o <<SP>> >>
  \o [i \in DOMAIN b.args |-> b.args[i][1] \o <<SP>> \o b.args[i][2] \o <<SP>>]
  \o [j \in DOMAIN b.var |->
        <<"-var", SP>> \o b.var[j][1] \o <<SP>> \o b.var[j][2] \o <<SP>>]

ExampleBuild ==
  [num_procs |-> 4, lmp_exec |-> W("lmp_mpi"),
   args |-> << <<W("-in"), W("in.melt")>> >>, var |-> << <<W("T"), W("300")>> >>]

ExampleCommand ==
  <<"mpirun", SP, "-n", SP, "4", SP, "lmp_mpi", SP, "-in", SP, "in.melt", SP,
    "-var", SP, "T", SP, "300", SP>>

SameInputs(b, c) ==
  /\ b.num_procs = c.num_procs /\ b.lmp_exec = c.lmp_exec
  /\ b.args = c.args /\ b.var = c.var

\* C1: run_lammps returns the header 'mpirun -n <n> <exec> ', then one
\* '<flag> <value> ' piece per option in the map's order, then one
\* '-var <name> <value> ' piece per variable in the map's order, and nothing
\* else (so each pair is rendered once and every variable follows every
\* option); the call leaves its inputs as they were; the documented example
\* gives 'mpirun -n 4 lmp_mpi -in in.melt -var T 300 '.
C1_CommandLayout ==
  [][ build'.done =>
        /\ Partitions(build'.out, ExpectedSegs(build))
        /\ SameInputs(build', build)
        /\ (SameInputs(build, ExampleBuild) => build'.out = ExampleCommand) ]_vars

\* run_lammps has returned for two options and two variables
C1_Witness ==
  /\ build.done /\ Len(build.args) = 2 /\ Len(build.var) = 2
  /\ Len(build.out) > 0

(***************************************************************************)
(* Reading a rendered text back                                            *)
(***************************************************************************)
\* the lines of a text: the pieces between its newlines
RECURSIVE Lines(_)
Lines(t) ==
  IF \A p \in DOMAIN t : t[p] # NL THEN <<t>>
  ELSE LET p == CHOOSE q \in DOMAIN t : t[q] = NL /\ \A r \in 1..(q - 1) : t[r] # NL
       IN  <<SubSeq(t, 1, p - 1)>> \o Lines(SubSeq(t, p + 1, Len(t)))

LastLine(t) == Lines(t)[Len(Lines(t))]

\* the positions of a text where the token '-in' is followed by one more token
InPairs(t) ==
  {p \in 1..(Len(t) - 3) :
     /\ t[p] = "-in" /\ t[p + 1] = SP /\ t[p + 3] = SP
     /\ (p = 1 \/ t[p - 1] \in {SP, NL})}

IsCluster(self) == self.kind \in {"SlurmCPU", "SlurmGPU"}
IsLocal(self) == self.kind \in {"CPU", "GPU"}

\* the target of the last operation and its option map
Target == insts[call.inst]
Options == heap[Target.args]

\* the command texts the last launch rendered: what it ran, or what it wrote
RenderedTexts ==
  {log[k].cmd : k \in {j \in DOMAIN log : log[j].op = "system" /\ IsLocal(Target)}}
  \cup {log[k].data : k \in {j \in DOMAIN log : log[j].op = "write"}}

(***************************************************************************)
(* C2                                                                       *)
(***************************************************************************)
\* C2: after every launch of a target, whatever was launched before and also
\* when the caller's options came with an '-in' entry, the option map has
\* exactly one '-in' entry and it names the script of this launch; the
\* command the launch rendered has exactly one '-in' token pair, and it
\* names this launch's script.
C2_OneScriptEntry ==
  call.op = "call" =>
    /\ Cardinality({k \in DOMAIN Options : Options[k][1] = W("-in")}) = 1
    /\ Get(Options, W("-in")) = call.script
    /\ (IsLocal(Target) \/ Target.generate_jobscript) => RenderedTexts # {}
    /\ \A t \in RenderedTexts :
         /\ Cardinality(InPairs(t)) = 1
         /\ \A p \in InPairs(t) : <<t[p + 2]>> = call.script

\* a launch has replaced the script an earlier launch had left in the map of
\* a target whose caller had passed an '-in' option of its own
C2_Witness ==
  /\ call.op = "call"
  /\ HasKey(Target.ctor.args, W("-in"))
  /\ call.prev \notin {<<>>, call.script, Get(Target.ctor.args, W("-in"))}
  /\ RenderedTexts # {}

(***************************************************************************)
(* C3                                                                       *)
(***************************************************************************)
\* `m` is `caller` laid over `default`
MergedOver(m, default, caller) ==
  /\ DistinctKeys(m)
  /\ Keys(m) = Keys(default) \cup Keys(caller)
  /\ \A k \in Keys(caller) : Get(m, k) = Get(caller, k)
  /\ \A k \in Keys(default) \ Keys(caller) : Get(m, k) = Get(default, k)

\* C3: the maps a constructor merges (GPU options, SlurmCPU settings,
\* SlurmGPU options and settings) have the keys of the defaults and of the
\* caller's map; a key of the caller's map carries the caller's value, any
\* other key its default value.
C3_CallerOverDefaults ==
  \A i \in DOMAIN insts :
    LET self == insts[i] IN
    /\ self.kind = "SlurmCPU" =>
         MergedOver(self.settings,
                    SlurmCPU_default_settings(self.num_nodes * self.ctor.procs_per_node,
                                              self.num_nodes),
                    self.ctor.settings)
    /\ self.kind = "SlurmGPU" =>
         MergedOver(self.settings, SlurmGPU_default_settings(self.gpu_per_node),
                    self.ctor.settings)
    /\ (self.kind = "GPU" /\ call.op = "init") =>
         MergedOver(heap[self.args], GPU_default_args(self.gpu_per_node), self.ctor.args)
    /\ (self.kind = "SlurmGPU" /\ call.op = "init") =>
         MergedOver(heap[self.args], SlurmGPU_default_args(self.gpu_per_node),
                    self.ctor.args)

\* a SlurmGPU target built from options and settings that each override a
\* default and bring a key of their own
C3_Witness ==
  /\ call.op = "init" /\ Target.kind = "SlurmGPU"
  /\ Keys(Target.ctor.args) \cap Keys(SlurmGPU_default_args(1)) # {}
  /\ Keys(Target.ctor.args) \ Keys(SlurmGPU_default_args(1)) # {}
  /\ Keys(Target.ctor.settings) \cap Keys(SlurmGPU_default_settings(1)) # {}
  /\ Keys(Target.ctor.settings) \ Keys(SlurmGPU_default_settings(1)) # {}

(***************************************************************************)
(* C4                                                                       *)
(***************************************************************************)
\* C4: every target owns its option map, also when it was built without
\* options of the caller: a launch of one target adds or changes no entry of
\* the option map of any other target.
C4_IndependentOptionMaps ==
  [][ call'.op = "call" =>
        \A j \in DOMAIN insts \ {call'.inst} :
          heap'[insts[j].args] = heap[insts[j].args] ]_vars

(***************************************************************************)
(* C5                                                                       *)
(***************************************************************************)
\* lines 3.. of a job script: one '#SBATCH --KEY=VALUE' line and one '#' line
\* per entry of the settings, in the settings' order
DirectiveLines(lines, settings) ==
  \A k \in DOMAIN settings :
    /\ lines[2 * k + 1] = <<"#SBATCH", SP, "--">> \o settings[k][1] \o <<"=">>
                          \o settings[k][2]
    /\ lines[2 * k + 2] = <<"#">>

SlurmCPULayout(text, self, options, var) ==
  LET lines == Lines(text)
      m == Len(self.settings)
  IN  /\ Len(lines) = 2 * m + 10
      /\ lines[1] = <<"#!/bin/bash">>
      /\ lines[2] = <<>>
      /\ DirectiveLines(lines, self.settings)
      /\ lines[2 * m + 3] = <<"##", SP, "Set", SP, "up", SP, "job", SP, "environment:">>
      /\ lines[2 * m + 4] = <<"source", SP, "/cluster/bin/jobsetup">>
      /\ lines[2 * m + 5] = <<"module", SP, "purge">>
      /\ lines[2 * m + 6] = <<"set", SP, "-o", SP, "errexit">>
      /\ lines[2 * m + 7] = <<>>
      /\ lines[2 * m + 8] = <<"module", SP, "load", SP>> \o self.lmp_module
      /\ lines[2 * m + 9] = <<>>
      /\ lines[2 * m + 10] =
           run_lammps(self.num_nodes * self.ctor.procs_per_node, self.lmp_exec,
                      options, var)

\* C5: a SlurmCPU target runs num_nodes * procs_per_node processes; unless the
\* caller overrides them, its settings carry ntasks = that product and
\* nodes = num_nodes (2 nodes of 16 give ntasks=32, nodes=2); the job script
\* it generates is the shebang, the directives of the settings in order, the
\* environment set-up lines, the module-load line of the configured module
\* and, last, run_lammps(total, executable, options, variables).
C5_SlurmCPUJob ==
  /\ \A i \in DOMAIN insts :
       LET self == insts[i]
           total == self.num_nodes * self.ctor.procs_per_node
       IN  self.kind = "SlurmCPU" =>
             /\ self.num_procs = total
             /\ W("ntasks") \notin Keys(self.ctor.settings) =>
                  Get(self.settings, W("ntasks")) = IntToStr(total)
             /\ W("nodes") \notin Keys(self.ctor.settings) =>
                  Get(self.settings, W("nodes")) = IntToStr(self.num_nodes)
             /\ (self.num_nodes = 2 /\ self.ctor.procs_per_node = 16
                 /\ self.ctor.settings = <<>>) =>
                  /\ Get(self.settings, W("ntasks")) = <<"3", "2">>
                  /\ Get(self.settings, W("nodes")) = <<"2">>
  /\ (call.op = "call" /\ Target.kind = "SlurmCPU" /\ Target.generate_jobscript) =>
       /\ fs[Target.jobscript].exists
       /\ SlurmCPULayout(fs[Target.jobscript].content, Target, Options, call.var)

\* two nodes of 16 processes have generated a job script with variables
C5_Witness ==
  /\ call.op = "call" /\ Target.kind = "SlurmCPU" /\ Target.generate_jobscript
  /\ Target.num_nodes = 2 /\ Target.ctor.procs_per_node = 16
  /\ Target.ctor.settings = <<>> /\ Len(call.var) = 2
  /\ fs[Target.jobscript].exists

(***************************************************************************)
(* C6                                                                       *)
(***************************************************************************)
TargetNext == insts'[call'.inst]

\* C6: a launch of a cluster target sets options['-in'], then (if
\* generate_jobscript) rewrites the job script, then submits the job script
\* once.  With generation the file submitted is the one this call wrote from
\* the options and variables of this call; without it no file is written.
C6_SetGenerateSubmit ==
  [][ (call'.op = "call" /\ IsCluster(TargetNext)) =>
        LET self == TargetNext
            options == heap'[self.args]
            submit == System(<<"sbatch", SP>> \o self.jobscript,
                             fs'[self.jobscript].content)
        IN  /\ options = DictSet(heap[self.args], W("-in"), call'.script)
            /\ Get(options, W("-in")) = call'.script
            /\ IF self.generate_jobscript
               THEN /\ log' = <<Write(self.jobscript, fs'[self.jobscript].content),
                               submit>>
                    /\ fs'[self.jobscript].exists
                    /\ LastLine(fs'[self.jobscript].content) =
                         run_lammps(IF self.kind = "SlurmCPU" THEN self.num_procs
                                    ELSE self.gpu_per_node,
                                    self.lmp_exec, options, call'.var)
               ELSE /\ log' = <<submit>>
                    /\ fs' = fs ]_vars

\* a launch has rewritten a job script that an earlier launch had written
\* for another script
C6_Witness ==
  /\ call.op = "call" /\ IsCluster(Target) /\ Target.generate_jobscript
  /\ call.prev \notin {<<>>, call.script}
  /\ ~HasKey(Target.ctor.args, W("-in"))
  /\ Len(call.var) > 0
  /\ Len(log) = 2

(***************************************************************************)
(* C7                                                                       *)
(***************************************************************************)
SlurmGPULayout(text, self, options, var) ==
  LET lines == Lines(text)
      m == Len(self.settings)
  IN  /\ Len(lines) = 2 * m + 4
      /\ lines[1] = <<"#!/bin/bash">>
      /\ lines[2] = <<>>
      /\ DirectiveLines(lines, self.settings)
      /\ lines[2 * m + 3] = <<"echo", SP, "$CUDA_VISIBLE_DEVICES">>
      /\ lines[2 * m + 4] = run_lammps(self.gpu_per_node, self.lmp_exec, options, var)
      /\ \A k \in DOMAIN lines :
           /\ ~(Len(lines[k]) >= 3 /\ SubSeq(lines[k], 1, 3) = <<"module", SP, "load">>)
           /\ lines[k] # <<"set", SP, "-o", SP, "errexit">>

\* C7: the job script of a SlurmGPU target is the shebang, the directives of
\* the settings in order, the line 'echo $CUDA_VISIBLE_DEVICES' and then the
\* MPI command line; it has no module-load line and no 'set -o errexit' line.
C7_SlurmGPUJob ==
  (call.op = "call" /\ Target.kind = "SlurmGPU" /\ Target.generate_jobscript) =>
    /\ fs[Target.jobscript].exists
    /\ SlurmGPULayout(fs[Target.jobscript].content, Target, Options, call.var)

\* a SlurmGPU target with settings and options of the caller has generated a
\* job script
C7_Witness ==
  /\ call.op = "call" /\ Target.kind = "SlurmGPU" /\ Target.generate_jobscript
  /\ Len(Target.ctor.settings) > 1 /\ Len(Target.ctor.args) > 1
  /\ Len(call.var) > 0
  /\ Len(fs[Target.jobscript].content) > 0

(***************************************************************************)
(* C8                                                                       *)
(***************************************************************************)
\* C8: a GPU target built with gpu_per_node = g and no options of the caller
\* runs 'mpirun -n g lmp_kokkos_cuda_mpi -pk kokkos newton on comm no
\* -k on g g -sf kk -in <script> ' followed by the variables.
C8_GPUCommand ==
  (call.op = "call" /\ Target.kind = "GPU" /\ Target.ctor.args = <<>>) =>
    LET g == IntToStr(Target.gpu_per_node) IN
    log = << System(<<"mpirun", SP, "-n", SP>> \o g
                    \o <<SP, "lmp_kokkos_cuda_mpi", SP,
                         "-pk", SP, "kokkos", SP, "newton", SP, "on", SP, "comm", SP, "no", SP,
                         "-k", SP, "on", SP, "g", SP>> \o g
                    \o <<SP, "-sf", SP, "kk", SP, "-in", SP>> \o call.script \o <<SP>>
                    \o RenderVars(call.var),
                    <<>>) >>

\* a GPU target of two accelerators, built without options, has launched a
\* second script
C8_Witness ==
  /\ call.op = "call" /\ Target.kind = "GPU" /\ ~Target.ctor.has_args
  /\ Target.gpu_per_node = 2
  /\ call.prev \notin {<<>>, call.script}
  /\ Len(log) = 1

(***************************************************************************)
(* C9                                                                       *)
(***************************************************************************)
\* C9: Computer(...) and Computer.__call__ raise NotImplementedError and do
\* nothing else: no instance, no change of an option map, no file, no
\* process; CPU, GPU, SlurmCPU and SlurmGPU define __init__ and __call__
\* themselves, and constructing or launching them does not raise.
C9_BaseFailsFast ==
  [][ /\ call'.op \in {"base_init", "base_call"} =>
           /\ err' = "NotImplementedError"
           /\ log' = <<>>
           /\ UNCHANGED <<heap, insts, fs>>
      /\ call'.op \in {"init", "call"} =>
           /\ err' = "none"
           /\ {"__init__", "__call__"} \subseteq Defines[TargetNext.kind]
           /\ TargetNext.kind \in {"CPU", "GPU", "SlurmCPU", "SlurmGPU"} ]_vars

\* the base launch operation has raised on a target that had launched before
C9_Witness ==
  /\ call.op = "base_call" /\ err = "NotImplementedError"
  /\ HasKey(Options, W("-in"))
  /\ log = <<>>

(***************************************************************************)
(* SpecConc: launches of one target from several threads                   *)
(***************************************************************************)
MaxThr == 2   \* threads, each launching once

Idle == [pc |-> "idle", script |-> <<>>, var |-> <<>>, call_string |-> <<>>,
         ran |-> <<>>, overlapped |-> FALSE]

\* the targets the threads may share, each as its constructor leaves it
SharedTargets ==
  {CPU__init__(InitHeap, DefaultNumProcs, LMP_MPI, DefaultArgs.CPU),
   GPU__init__(InitHeap, 1, LMP_KOKKOS, DefaultArgs.GPU)}
  \cup {SlurmCPU__init__(InitHeap, 1, LMP_MPI, <<>>, DefaultArgs.SlurmCPU,
                         DefaultProcsPerNode, LMP_MODULE, gen, JOBSCRIPT) :
          gen \in BOOLEAN}
  \cup {SlurmGPU__init__(InitHeap, 1, LMP, <<>>, DefaultArgs.SlurmGPU, gen, JOBSCRIPT) :
          gen \in BOOLEAN}

InitConc ==
  /\ \E r \in SharedTargets : heap = r.heap /\ insts = <<r.self>>
  /\ fs = [p \in Paths |-> NoFile]
  /\ thr = [t \in 1..MaxThr |-> Idle]
  /\ log = <<>> /\ call = NoCall /\ err = "none" /\ build = NoBuild

Shared == insts[1]

Running(t) == thr[t].pc \notin {"idle", "done"}

\* self.args["-in"] = lmp_script : the first statement of every __call__
T_SetIn(t) ==
  \E s \in Scripts, v \in Several.vars :
    LET busy == {u \in DOMAIN thr : u # t /\ Running(u)}
        goto == IF IsLocal(Shared) THEN "render"
                ELSE IF Shared.generate_jobscript THEN "open" ELSE "submit"
    IN  /\ thr[t].pc = "idle"
        /\ heap' = [heap EXCEPT ![Shared.args] = DictSet(@, W("-in"), s)]
        /\ thr' = [u \in DOMAIN thr |->
                     IF u = t
                     THEN [thr[t] EXCEPT !.pc = goto, !.script = s, !.var = v,
                                         !.overlapped = (busy # {})]
                     ELSE IF u \in busy THEN [thr[u] EXCEPT !.overlapped = TRUE]
                     ELSE thr[u]]
        /\ UNCHANGED <<insts, fs, log, call, err, build>>

\* call_string = self.run_lammps(...) of CPU.__call__ and GPU.__call__
T_Render(t) ==
  /\ thr[t].pc = "render"
  /\ thr' = [thr EXCEPT ![t].pc = "system",
                        ![t].call_string =
                           run_lammps(IF Shared.kind = "CPU" THEN Shared.num_procs
                                      ELSE Shared.gpu_per_node,
                                      Shared.lmp_exec, heap[Shared.args], thr[t].var)]
  /\ UNCHANGED <<heap, insts, fs, log, call, err, build>>

\* os.system(call_string)
T_System(t) ==
  /\ thr[t].pc = "system"
  /\ thr' = [thr EXCEPT ![t].pc = "done", ![t].ran = thr[t].call_string]
  /\ UNCHANGED <<heap, insts, fs, log, call, err, build>>

\* open(self.jobscript, "w") : the file is emptied
T_Open(t) ==
  /\ thr[t].pc = "open"
  /\ fs' = [fs EXCEPT ![Shared.jobscript] = File(<<>>)]
  /\ thr' = [thr EXCEPT ![t].pc = "write"]
  /\ UNCHANGED <<heap, insts, log, call, err, build>>

\* a text written from the start of a file that holds `old`
Overlay(old, text) ==
  IF Len(old) > Len(text) THEN text \o SubSeq(old, Len(text) + 1, Len(old)) ELSE text

\* the f.write calls and the close of gen_jobscript: the buffered text goes
\* to the start of the file, over what the file holds by then
T_Write(t) ==
  LET text == IF Shared.kind = "SlurmCPU"
              THEN SlurmCPU_gen_jobscript(Shared, heap[Shared.args], thr[t].var)
              ELSE SlurmGPU_gen_jobscript(Shared, heap[Shared.args], thr[t].var)
  IN  /\ thr[t].pc = "write"
      /\ fs' = [fs EXCEPT ![Shared.jobscript] =
                            File(Overlay(fs[Shared.jobscript].content, text))]
      /\ thr' = [thr EXCEPT ![t].pc = "submit"]
      /\ UNCHANGED <<heap, insts, log, call, err, build>>

\* os.system(f"sbatch {self.jobscript}") : the queue takes the file as it is
T_Submit(t) ==
  /\ thr[t].pc = "submit"
  /\ thr' = [thr EXCEPT ![t].pc = "done", ![t].ran = fs[Shared.jobscript].content]
  /\ UNCHANGED <<heap, insts, fs, log, call, err, build>>

NextConc ==
  \E t \in DOMAIN thr :
    \/ T_SetIn(t) \/ T_Render(t) \/ T_System(t)
    \/ T_Open(t) \/ T_Write(t) \/ T_Submit(t)

SpecConc == InitConc /\ [][NextConc]_vars

(***************************************************************************)
(* C10                                                                      *)
(***************************************************************************)
\* what thread t ran or submitted names a script that is not its own
Misnamed(t) ==
  /\ thr[t].pc = "done"
  /\ \E p \in InPairs(thr[t].ran) : <<thr[t].ran[p + 2]>> # thr[t].script

\* C10: what a launch runs or submits names another launch's script only if
\* the two launches of the target overlapped in time; launches that follow
\* one another always run or submit their own script (and the witness shows
\* that overlapping launches can run or submit the other's script).
C10_MisnamedOnlyWhenOverlapping ==
  \A t \in DOMAIN thr :
    /\ Misnamed(t) => thr[t].overlapped
    /\ (thr[t].pc = "done" /\ ~thr[t].overlapped
        /\ (IsLocal(Shared) \/ Shared.generate_jobscript)) =>
         /\ Cardinality(InPairs(thr[t].ran)) = 1
         /\ \A p \in InPairs(thr[t].ran) : <<thr[t].ran[p + 2]>> = thr[t].script

\* two overlapping launches with different scripts have finished, and one of
\* them ran or submitted the script of the other
C10_Witness ==
  \E t, u \in DOMAIN thr :
    /\ t # u /\ thr[t].pc = "done" /\ thr[u].pc = "done"
    /\ thr[t].script # thr[u].script
    /\ thr[t].overlapped
    /\ \E p \in InPairs(thr[t].ran) : <<thr[t].ran[p + 2]>> = thr[u].script

====
